---- MODULE Spec2Model ----
(***************************************************************************)
(* hono-router (src/index.js): the file-based route generator.             *)
(*                                                                         *)
(* A JavaScript string is a sequence of one-character strings, so that the *)
(* regular-expression rewrites of the source act on characters.  A fixed   *)
(* piece of generated text (a keyword of the emitted module, the name of   *)
(* the routes directory) is one element of such a sequence.                *)
(***************************************************************************)
EXTENDS Integers, Sequences, FiniteSets, TLC

VARIABLES
    pc,          \* position of the main script
    argv,        \* process.argv.slice(2) as given on the command line
    args,        \* the args array of the main script (flags spliced out)
    isWatchMode, \* main script, line 206
    isDeno,      \* main script, line 213
    routesDir,   \* main script, line 218
    outputFile,  \* main script, line 218
    tree,        \* the files below routesDir: a set of [path, content]
    listing,     \* the order in which readdirSync lists a directory
    fsFault,     \* TRUE while the file system refuses reads and writes
    outContent,  \* contents of outputFile on disk (NoFile when absent)
    imports,     \* the imports array of the latest generation pass
    routes,      \* the routes array of the latest generation pass
    passes,      \* number of calls of generateRoutes so far
    written,     \* number of completed fs.writeFileSync calls
    watching,    \* TRUE once fs.watch has been called
    pending,     \* change events reported by the OS, not yet delivered
    delivered,   \* change events delivered to the fs.watch callback
    dirty,       \* TRUE when the tree changed after the latest write
    changes,     \* number of external changes made to the tree so far
    stderr,      \* TRUE once the usage message went to the error stream
    exitCode,    \* exit code of the process (NoExit while it runs)
    compared     \* a call of sortPaths on its own: its arguments and results

vars == <<pc, argv, args, isWatchMode, isDeno, routesDir, outputFile, tree,
          listing, fsFault, outContent, imports, routes, passes, written,
          watching, pending, delivered, dirty, changes, stderr, exitCode,
          compared>>

-----------------------------------------------------------------------------
(* Bounds of the model                                                     *)

MaxFlags   == 1   \* flags on the command line
MaxChanges == 2   \* external changes of the route tree in one run
MaxPasses  == 3   \* generation passes in one run
MaxDepth   == 1   \* directories above a route file (path cases)
MaxFiles   == 3   \* route files in a tree (ordering cases)
MaxStmts   == 2   \* statements in a route file (export detection cases)
MaxNames   == 2   \* segment names in compared paths (comparator cases)

-----------------------------------------------------------------------------
(* Characters and strings                                                  *)

\* UTF-16 code unit of a character: what JavaScript's < and > compare.
CharCode(c) ==
    CASE c = "*" -> 42  [] c = "+" -> 43  [] c = "-" -> 45  [] c = "." -> 46
      [] c = "/" -> 47  [] c = "1" -> 49  [] c = ":" -> 58  [] c = "@" -> 64
      [] c = "A" -> 65  [] c = "[" -> 91  [] c = "]" -> 93  [] c = "_" -> 95
      [] c = "a" -> 97  [] c = "b" -> 98  [] c = "d" -> 100 [] c = "e" -> 101
      [] c = "i" -> 105 [] c = "n" -> 110 [] c = "o" -> 111 [] c = "r" -> 114
      [] c = "s" -> 115
      [] c = "t" -> 116 [] c = "x" -> 120 [] c = "y" -> 121 [] c = "{" -> 123
      [] c = "}" -> 125

\* String.prototype.toUpperCase / toLowerCase on one character.
toUpperCase(c) ==
    CASE c = "a" -> "A" [] c = "b" -> "B" [] c = "d" -> "D" [] c = "e" -> "E"
      [] c = "i" -> "I" [] c = "n" -> "N" [] c = "o" -> "O" [] c = "r" -> "R"
      [] c = "s" -> "S"
      [] c = "t" -> "T" [] c = "x" -> "X" [] c = "y" -> "Y" [] OTHER -> c

toLowerCase(c) ==
    CASE c = "A" -> "a" [] OTHER -> c

Min(S) == CHOOSE m \in S : \A n \in S : m <= n

\* s has the text p at position i.
StartsWithAt(s, i, p) ==
    /\ i >= 1
    /\ i + Len(p) - 1 <= Len(s)
    /\ \A k \in 1..Len(p) : s[i + k - 1] = p[k]

startsWith(s, p) == StartsWithAt(s, 1, p)

endsWith(s, p) == StartsWithAt(s, Len(s) - Len(p) + 1, p)

includes(s, p) == \E i \in 1..(Len(s) + 1) : StartsWithAt(s, i, p)

\* a < b for JavaScript strings: code unit by code unit, a prefix first.
RECURSIVE StrLess(_, _)
StrLess(a, b) ==
    IF b = <<>> THEN FALSE
    ELSE IF a = <<>> THEN TRUE
    ELSE IF a[1] = b[1] THEN StrLess(Tail(a), Tail(b))
    ELSE CharCode(a[1]) < CharCode(b[1])

\* s.split(sep): the parts between the separators, empty parts kept.
RECURSIVE SplitFrom(_, _, _)
SplitFrom(s, sep, cur) ==
    IF s = <<>> THEN <<cur>>
    ELSE IF s[1] = sep THEN <<cur>> \o SplitFrom(Tail(s), sep, <<>>)
    ELSE SplitFrom(Tail(s), sep, Append(cur, s[1]))

split(s, sep) == SplitFrom(s, sep, <<>>)

\* parts.join(sep)
RECURSIVE join(_, _)
join(parts, sep) ==
    IF parts = <<>> THEN <<>>
    ELSE IF Len(parts) = 1 THEN parts[1]
    ELSE parts[1] \o sep \o join(Tail(parts), sep)

\* s.replace(/open(.+?)close/g, pre + '$1' + post), read from position i on:
\* at a position holding open, the lazy group takes the shortest non-empty
\* text that is followed by close; the scan resumes after the match.
RECURSIVE ReplaceWrapped(_, _, _, _, _, _)
ReplaceWrapped(s, i, open, close, pre, post) ==
    IF i > Len(s) THEN <<>>
    ELSE
      LET ends == { j \in (i + Len(open) + 1)..Len(s) : StartsWithAt(s, j, close) }
      IN  IF StartsWithAt(s, i, open) /\ ends # {}
          THEN LET j == Min(ends)
               IN  pre \o SubSeq(s, i + Len(open), j - 1) \o post
                       \o ReplaceWrapped(s, j + Len(close), open, close, pre, post)
          ELSE <<s[i]>> \o ReplaceWrapped(s, i + 1, open, close, pre, post)

\* s.replace(/[set]/g, by)
ReplaceChars(s, set, by) ==
    [k \in 1..Len(s) |-> IF s[k] \in set THEN by ELSE s[k]]

\* s.replace(/suffix$/, '')
StripSuffix(s, suffix) ==
    IF endsWith(s, suffix) THEN SubSeq(s, 1, Len(s) - Len(suffix)) ELSE s

\* s.replace(/^_+/, '')
RECURSIVE StripLeading(_, _)
StripLeading(s, c) ==
    IF s # <<>> /\ s[1] = c THEN StripLeading(Tail(s), c) ELSE s

OpenBB3 == <<"[", "[", ".", ".", ".">>
OpenB3  == <<"[", ".", ".", ".">>
OpenBB  == <<"[", "[">>
OpenB   == <<"[">>
CloseBB == <<"]", "]">>
CloseB  == <<"]">>
IndexName == <<"i", "n", "d", "e", "x">>
ExtTs  == <<".", "t", "s">>
ExtTsx == <<".", "t", "s", "x">>


-----------------------------------------------------------------------------
(* node:path (posix)                                                       *)

\* Normalised segments of a relative path: '' and '.' dropped, '..' resolved.
RECURSIVE NormSegs(_, _)
NormSegs(segs, acc) ==
    IF segs = <<>> THEN acc
    ELSE LET h == segs[1]
         IN  IF h = <<>> \/ h = <<".">> THEN NormSegs(Tail(segs), acc)
             ELSE IF h = <<".", ".">> /\ acc # <<>> /\ acc[Len(acc)] # <<".", ".">>
                  THEN NormSegs(Tail(segs), SubSeq(acc, 1, Len(acc) - 1))
                  ELSE NormSegs(Tail(segs), Append(acc, h))

PathSegs(p) == NormSegs(split(p, "/"), <<>>)

\* path.posix.join(a, b) for relative paths without a trailing slash
posixJoin(a, b) ==
    LET joined == IF a = <<>> THEN b ELSE IF b = <<>> THEN a ELSE a \o <<"/">> \o b
        segs   == PathSegs(joined)
    IN  IF segs = <<>> THEN <<".">> ELSE join(segs, <<"/">>)

\* path.dirname(p), as the segments of the directory
dirnameSegs(p) ==
    LET segs == PathSegs(p)
    IN  IF segs = <<>> THEN <<>> ELSE SubSeq(segs, 1, Len(segs) - 1)

\* path.posix.relative(from, to) on resolved segment lists
RECURSIVE CommonPrefixLen(_, _)
CommonPrefixLen(a, b) ==
    IF a = <<>> \/ b = <<>> \/ a[1] # b[1] THEN 0
    ELSE 1 + CommonPrefixLen(Tail(a), Tail(b))

posixRelative(fromSegs, toSegs) ==
    LET n    == CommonPrefixLen(fromSegs, toSegs)
        ups  == [k \in 1..(Len(fromSegs) - n) |-> <<".", ".">>]
        rest == SubSeq(toSegs, n + 1, Len(toSegs))
    IN  join(ups \o rest, <<"/">>)

-----------------------------------------------------------------------------
(* getExportedMethods and isCapitalized                                    *)

\* The text of a route file is a sequence of lexemes; these are the ones
\* the patterns of getExportedMethods are made of.
ExportConst    == "export const "
Assign         == " = "
CreateHandlers == "createHandlers"
NewLine        == "\n"

methods ==
    <<"onRequestGet", "onRequestPut", "onRequestPost", "onRequestDelete",
      "onRequestPatch">>

\* new RegExp(`export const ${method} = .*createHandlers`).test(fileContent)
factoryRegexTest(fileContent, method) ==
    \E i \in 1..Len(fileContent) :
        /\ StartsWithAt(fileContent, i, <<ExportConst, method, Assign>>)
        /\ \E j \in (i + 3)..Len(fileContent) :
               /\ fileContent[j] = CreateHandlers
               /\ \A k \in (i + 3)..(j - 1) : fileContent[k] # NewLine

\* fileContent.includes(`export const ${method}`)
standardExportTest(fileContent, method) ==
    includes(fileContent, <<ExportConst, method>>)

\* (variant: the factory branch does not return, both entries are produced)
exportedMethod_FallThrough(fileContent, method) ==
    (IF factoryRegexTest(fileContent, method)
     THEN <<[method |-> method, isFactory |-> TRUE]>> ELSE <<>>)
      \o (IF standardExportTest(fileContent, method)
          THEN <<[method |-> method, isFactory |-> FALSE]>> ELSE <<>>)

\* the callback of methods.flatMap
exportedMethod(fileContent, method) ==
    IF factoryRegexTest(fileContent, method)
    THEN <<[method |-> method, isFactory |-> TRUE]>>
    ELSE IF standardExportTest(fileContent, method)
         THEN <<[method |-> method, isFactory |-> FALSE]>>
         ELSE <<>>

RECURSIVE flatMapMethods(_, _)
flatMapMethods(fileContent, ms) ==
    IF ms = <<>> THEN <<>>
    ELSE exportedMethod(fileContent, ms[1]) \o flatMapMethods(fileContent, Tail(ms))

getExportedMethods(fileContent) == flatMapMethods(fileContent, methods)

\* (variant: the test for a lower-case first letter)
isCapitalized_Lower(str) ==
    LET letter == str[1]
    IN  letter = toLowerCase(letter) /\ letter # toUpperCase(letter)

isCapitalized(str) ==
    LET letter == str[1]
    IN  letter = toUpperCase(letter) /\ letter # toLowerCase(letter)

\* method.replace('onRequest', '').toLowerCase()
methodName(method) ==
    CASE method = "onRequestGet"    -> "get"
      [] method = "onRequestPut"    -> "put"
      [] method = "onRequestPost"   -> "post"
      [] method = "onRequestDelete" -> "delete"
      [] method = "onRequestPatch"  -> "patch"

-----------------------------------------------------------------------------
(* The strings generateRoutes derives from a file's position              *)

\* .replace(/\.(ts|tsx)$/, '')
stripExtension(s) ==
    IF endsWith(s, ExtTs) THEN StripSuffix(s, ExtTs) ELSE StripSuffix(s, ExtTsx)

\* line 85: the tree-relative path of an entry without its extension
importPathOf(basePath, name) == stripExtension(posixJoin(basePath, name))

\* lines 98-105
safeNameOf(importPath) ==
    LET s1 == ReplaceChars(importPath, {"@", "/", "\\"}, "_")
        s2 == StripLeading(s1, "_")
        s3 == ReplaceChars(s2, {"-"}, "_")
        s4 == ReplaceWrapped(s3, 1, OpenBB3, CloseBB, <<>>, <<>>)
        s5 == ReplaceWrapped(s4, 1, OpenB3, CloseB, <<>>, <<>>)
        s6 == ReplaceWrapped(s5, 1, OpenBB, CloseBB, <<>>, <<>>)
    IN  ReplaceWrapped(s6, 1, OpenB, CloseB, <<>>, <<>>)

\* line 106
importPathStringOf(deno, basePath, name, importPath) ==
    IF deno THEN posixJoin(basePath, name) ELSE StripSuffix(importPath, IndexName)

\* lines 107-109: the import target relative to the output file's directory
relativePathOf(dir, out, importPathString) ==
    posixRelative(dirnameSegs(out), PathSegs(dir) \o PathSegs(importPathString))

\* lines 112-118
routePathOf(importPath) ==
    LET s1 == StripSuffix(importPath, IndexName)
        s2 == ReplaceWrapped(s1, 1, OpenBB3, CloseBB, <<":">>, <<"{", ".", "*", "}">>)
        s3 == ReplaceWrapped(s2, 1, OpenB3, CloseB, <<":">>, <<"{", ".", "*", "}">>)
        s4 == ReplaceWrapped(s3, 1, OpenBB, CloseBB, <<":">>, <<"{", ".", "+", "}">>)
        s5 == ReplaceWrapped(s4, 1, OpenB, CloseB, <<":">>, <<>>)
    IN  StripSuffix(s5, <<"/">>)

-----------------------------------------------------------------------------
(* The file system below routesDir                                         *)

IsPrefix(p, q) == Len(p) <= Len(q) /\ SubSeq(q, 1, Len(p)) = p

\* names of the entries of directory cur
EntryNames(t, cur) ==
    { f.path[Len(cur) + 1] : f \in { g \in t : Len(g.path) > Len(cur) /\ IsPrefix(cur, g.path) } }

\* entry.isDirectory() / entry.isFile()
isDirectory(t, cur, name) ==
    \E f \in t : Len(f.path) > Len(cur) + 1 /\ IsPrefix(Append(cur, name), f.path)

isFile(t, cur, name) == \E f \in t : f.path = Append(cur, name)

readFileSync(t, entryPath) == (CHOOSE f \in t : f.path = entryPath).content

\* The names of a set in ascending code-unit order.
RECURSIVE Ascending(_)
Ascending(S) ==
    IF S = {} THEN <<>>
    ELSE LET m == CHOOSE x \in S : \A y \in S : y = x \/ StrLess(x, y)
         IN  <<m>> \o Ascending(S \ {m})

Reverse(s) == [k \in 1..Len(s) |-> s[Len(s) + 1 - k]]

\* fs.readdirSync(currentPath, { withFileTypes: true }): the order of the
\* entries is the file system's; ord is that order.
readdirSync(t, ord, cur) ==
    IF ord = "asc" THEN Ascending(EntryNames(t, cur))
    ELSE Reverse(Ascending(EntryNames(t, cur)))

-----------------------------------------------------------------------------
(* generateRoutes                                                          *)

\* (variant: the arrays live outside generateRoutes and keep their entries)
NewAccumulators_Kept == [imports |-> imports, routes |-> routes]

\* lines 71-73: the accumulators of one pass
NewAccumulators == [imports |-> <<>>, routes |-> <<>>]

\* line 110; src records the file an entry came from (bookkeeping only, the
\* program never reads it)
importLine(safeName, relativePath, entryPath) ==
    [text |-> <<"import * as ">> \o safeName \o <<" from ", "'", ".", "/">>
                  \o relativePath \o <<"'", ";">>,
     src  |-> entryPath]

\* lines 111-131: one pushed route per exported method
routesOfFile(exportedMethods, importPath, safeName, entryPath) ==
    [k \in 1..Len(exportedMethods) |->
        [method    |-> methodName(exportedMethods[k].method),
         path      |-> <<"/">> \o routePathOf(importPath),
         handler   |-> safeName \o <<".">> \o <<exportedMethods[k].method>>,
         isFactory |-> exportedMethods[k].isFactory,
         src       |-> entryPath]]

\* lines 95-132: a candidate file
visitFile(env, cur, basePath, name, acc) ==
    LET entryPath       == Append(cur, name)
        importPath      == importPathOf(basePath, name)
        fileContent     == readFileSync(env.tree, entryPath)
        exportedMethods == getExportedMethods(fileContent)
        safeName        == safeNameOf(importPath)
        importPathString == importPathStringOf(env.deno, basePath, name, importPath)
        relativePath    == relativePathOf(env.dir, env.out, importPathString)
    IN  IF Len(exportedMethods) > 0
        THEN [imports |-> Append(acc.imports, importLine(safeName, relativePath, entryPath)),
              routes  |-> acc.routes
                            \o routesOfFile(exportedMethods, importPath, safeName, entryPath)]
        ELSE acc

\* lines 90-94: which entries are read as route files
isCandidate(env, cur, name) ==
    /\ isFile(env.tree, cur, name)
    /\ ~isCapitalized(name)
    /\ (endsWith(name, ExtTs) \/ endsWith(name, ExtTsx))

RECURSIVE traverseDirectories(_, _, _, _)
RECURSIVE traverseEntries(_, _, _, _, _)

\* the body of the for loop, lines 83-134
traverseEntries(env, entries, cur, basePath, acc) ==
    IF entries = <<>> THEN acc
    ELSE
      LET name == entries[1]
          next == IF isDirectory(env.tree, cur, name)
                  THEN traverseDirectories(env, Append(cur, name),
                                           importPathOf(basePath, name), acc)
                  ELSE IF isCandidate(env, cur, name)
                       THEN visitFile(env, cur, basePath, name, acc)
                       ELSE acc
      IN  traverseEntries(env, Tail(entries), cur, basePath, next)

traverseDirectories(env, cur, basePath, acc) ==
    traverseEntries(env, readdirSync(env.tree, env.listing, cur), cur, basePath, acc)

\* lines 145-176, from position i on (0-based as in the source)
RECURSIVE sortPathsFrom(_, _, _)
sortPathsFrom(aParts, bParts, i) ==
    IF i >= (IF Len(aParts) > Len(bParts) THEN Len(aParts) ELSE Len(bParts)) THEN 0
    ELSE
      LET aPart == IF i + 1 <= Len(aParts) THEN aParts[i + 1] ELSE <<>>
          bPart == IF i + 1 <= Len(bParts) THEN bParts[i + 1] ELSE <<>>
          aIsParam == startsWith(aPart, <<":">>)
          bIsParam == startsWith(bPart, <<":">>)
          aIsGreedy == aIsParam /\ (includes(aPart, <<"{", ".", "+", "}">>)
                                      \/ includes(aPart, <<"{", ".", "*", "}">>))
          bIsGreedy == bIsParam /\ (includes(bPart, <<"{", ".", "+", "}">>)
                                      \/ includes(bPart, <<"{", ".", "*", "}">>))
      IN  IF aPart = bPart THEN sortPathsFrom(aParts, bParts, i + 1)
          ELSE IF ~aIsParam /\ bIsParam THEN -1
          ELSE IF aIsParam /\ ~bIsParam THEN 1
          ELSE IF aIsParam /\ bIsParam /\ ~aIsGreedy /\ bIsGreedy THEN -1
          ELSE IF aIsParam /\ bIsParam /\ aIsGreedy /\ ~bIsGreedy THEN 1
          ELSE IF StrLess(bPart, aPart) THEN 1
          ELSE IF StrLess(aPart, bPart) THEN -1
          ELSE sortPathsFrom(aParts, bParts, i + 1)

\* (variant: a plain string comparison of the whole paths)
sortPaths_Lexical(a, b) == IF a = b THEN 0 ELSE IF StrLess(a, b) THEN -1 ELSE 1

\* (variant: a comparator that never answers 1)
sortPaths_Unsigned(a, b) == IF sortPaths_Lexical(a, b) = 0 THEN 0 ELSE -1

sortPaths(a, b) == sortPathsFrom(split(a, "/"), split(b, "/"), 0)

\* a.match(/'(.*)'/)[1]: the text between the first and the last quote
matchQuoted(s) ==
    LET qs == { k \in 1..Len(s) : s[k] = "'" }
        lo == Min(qs)
        hi == CHOOSE m \in qs : \A n \in qs : n <= m
    IN  SubSeq(s, lo + 1, hi - 1)

\* (variant: an element is moved in front of the elements it ranks the same as)
RECURSIVE InsertSorted_Unstable(_, _, _, _)
InsertSorted_Unstable(xs, keys, x, key) ==
    IF xs = <<>> THEN <<<<x>>, <<key>>>>
    ELSE IF sortPaths(keys[Len(keys)], key) < 0
         THEN <<Append(xs, x), Append(keys, key)>>
         ELSE LET r == InsertSorted_Unstable(SubSeq(xs, 1, Len(xs) - 1),
                                              SubSeq(keys, 1, Len(keys) - 1), x, key)
              IN  <<Append(r[1], xs[Len(xs)]), Append(r[2], keys[Len(keys)])>>

\* Array.prototype.sort with a comparator: a stable sort.  keys[k] is the
\* string the comparator reads from xs[k].
RECURSIVE InsertSorted(_, _, _, _)
InsertSorted(xs, keys, x, key) ==
    IF xs = <<>> THEN <<<<x>>, <<key>>>>
    ELSE IF sortPaths(keys[Len(keys)], key) <= 0
         THEN <<Append(xs, x), Append(keys, key)>>
         ELSE LET r == InsertSorted(SubSeq(xs, 1, Len(xs) - 1),
                                     SubSeq(keys, 1, Len(keys) - 1), x, key)
              IN  <<Append(r[1], xs[Len(xs)]), Append(r[2], keys[Len(keys)])>>

RECURSIVE SortFrom(_, _, _, _)
SortFrom(xs, keys, k, sorted) ==
    IF k > Len(xs) THEN sorted[1]
    ELSE SortFrom(xs, keys, k + 1, InsertSorted(sorted[1], sorted[2], xs[k], keys[k]))

\* line 179
sortImports(is) ==
    SortFrom(is, [k \in 1..Len(is) |-> matchQuoted(is[k].text)], 1, <<<<>>, <<>>>>)

\* line 181
sortRoutes(rs) ==
    SortFrom(rs, [k \in 1..Len(rs) |-> rs[k].path], 1, <<<<>>, <<>>>>)

\* lines 183-187
routeLine(route) ==
    <<"app.", route.method, "(", "'">> \o route.path \o <<"'", ", ">>
        \o (IF route.isFactory THEN <<".", ".", ".">> ELSE <<>>)
        \o route.handler \o <<")", ";">>

routesOutput(rs) == [k \in 1..Len(rs) |-> routeLine(rs[k])]

\* lines 189-196
outputContent(is, rs) ==
    <<"\nimport { Hono, Env } from 'hono';\n\n">>
        \o join([k \in 1..Len(is) |-> is[k].text], <<"\n">>)
        \o <<"\n\nexport const loadRoutes = <T extends Env>(app: Hono<T>) => {\n\t">>
        \o join(routesOutput(rs), <<"\n\t">>)
        \o <<"\n};">>

\* lines 75-196: the traversal from given accumulators, the two sorts and
\* the text of the module
generateRoutesFrom(acc0, t, ord, dir, out, deno) ==
    LET env == [tree |-> t, listing |-> ord, dir |-> dir, out |-> out, deno |-> deno]
        acc == traverseDirectories(env, <<>>, <<>>, acc0)
        is  == sortImports(acc.imports)
        rs  == sortRoutes(acc.routes)
    IN  [imports |-> is, routes |-> rs, text |-> outputContent(is, rs)]

\* lines 69-198 up to the write: one pass starts from fresh accumulators
generateRoutes(t, ord, dir, out, deno) ==
    generateRoutesFrom(NewAccumulators, t, ord, dir, out, deno)

-----------------------------------------------------------------------------
(* The main script, lines 202-242                                          *)

Undefined == <<>>    \* a missing array element; '' is falsy in the same way
NoFile    == <<>>    \* outputFile does not exist
NoExit    == -1

WatchLong  == <<"--watch">>
WatchShort == <<"-w">>
DenoFlag   == <<"--deno">>

\* sortPaths has not been called on its own
NoCompare == <<>>

\* array.splice(index, 1), index 1-based here
Splice(a, index) == SubSeq(a, 1, index - 1) \o SubSeq(a, index + 1, Len(a))

\* lines 205-209
watchFlagIndex(a) ==
    LET hits == { k \in 1..Len(a) : a[k] = WatchLong \/ a[k] = WatchShort }
    IN  IF hits = {} THEN -1 ELSE Min(hits)

argsAfterWatch(a) ==
    IF watchFlagIndex(a) # -1 THEN Splice(a, watchFlagIndex(a)) ELSE a

\* lines 212-216
denoFlagIndex(a) ==
    LET hits == { k \in 1..Len(a) : a[k] = DenoFlag }
    IN  IF hits = {} THEN -1 ELSE Min(hits)

argsAfterDeno(a) ==
    IF denoFlagIndex(a) # -1 THEN Splice(a, denoFlagIndex(a)) ELSE a

ElementAt(a, k) == IF k <= Len(a) THEN a[k] ELSE Undefined

\* outputFile lies below routesDir: its path relative to routesDir, or <<>>
OutputBelow(dir, out) ==
    LET d == PathSegs(dir)
        o == PathSegs(out)
    IN  IF Len(o) > Len(d) /\ IsPrefix(d, o) THEN SubSeq(o, Len(d) + 1, Len(o)) ELSE <<>>

\* what readdirSync and readFileSync find below routesDir: the route files
\* and, when it lies there and exists, the output file itself
TreeSeen(t, dir, out, oc) ==
    LET rel == OutputBelow(dir, out)
    IN  IF rel # <<>> /\ oc # NoFile
        THEN { f \in t : f.path # rel } \cup { [path |-> rel, content |-> oc] }
        ELSE t

\* the call generateRoutes(routesDir, outputFile, isDeno) in the current state
PassResult ==
    generateRoutes(TreeSeen(tree, routesDir, outputFile, outContent), listing,
                   routesDir, outputFile, isDeno)

\* readdirSync(dir) at line 81 throws: the file system refuses, or dir is
\* not the routes directory that exists on disk
PassThrows == fsFault \/ PathSegs(routesDir) # PathSegs(<<"routes">>)

\* (variant: && in place of ||)
argsMissing_Both == routesDir = Undefined /\ outputFile = Undefined

\* line 219
argsMissing == routesDir = Undefined \/ outputFile = Undefined

\* line 198 and what a completed pass leaves behind
PassWrites ==
    LET r == PassResult
    IN  /\ imports' = r.imports
        /\ routes' = r.routes
        /\ outContent' = r.text
        /\ written' = written + 1
        /\ dirty' = FALSE

\* lines 202-218
ParseArgs ==
    /\ pc = "start"
    /\ LET a1 == argsAfterWatch(argv)
           a2 == argsAfterDeno(a1)
       IN  /\ isWatchMode' = (watchFlagIndex(argv) # -1)
           /\ isDeno' = (denoFlagIndex(a1) # -1)
           /\ args' = a2
           /\ routesDir' = ElementAt(a2, 1)
           /\ outputFile' = ElementAt(a2, 2)
    /\ pc' = "parsed"
    /\ UNCHANGED <<compared, argv, tree, listing, fsFault, outContent, imports, routes, passes,
                   written, watching, pending, delivered, dirty, changes, stderr, exitCode>>

\* lines 219-226
UsageExit ==
    /\ pc = "parsed"
    /\ argsMissing
    /\ stderr' = TRUE
    /\ exitCode' = 1
    /\ pc' = "exited"
    /\ UNCHANGED <<compared, argv, args, isWatchMode, isDeno, routesDir, outputFile, tree, listing,
                   fsFault, outContent, imports, routes, passes, written, watching,
                   pending, delivered, dirty, changes>>

\* line 229; an exception of the file system is not caught and ends the process
InitialGeneration ==
    /\ pc = "parsed"
    /\ ~argsMissing
    /\ passes' = passes + 1
    /\ IF PassThrows
       THEN /\ exitCode' = 1
            /\ pc' = "exited"
            /\ UNCHANGED <<imports, routes, outContent, written, dirty>>
       ELSE /\ PassWrites
            /\ pc' = "generated"
            /\ UNCHANGED exitCode
    /\ UNCHANGED <<compared, argv, args, isWatchMode, isDeno, routesDir, outputFile, tree, listing,
                   fsFault, watching, pending, delivered, changes, stderr>>

\* (variant: the subscription without the test of isWatchMode)
StartWatch_Always ==
    /\ pc = "generated"
    /\ watching' = TRUE
    /\ pc' = "watching"
    /\ UNCHANGED <<compared, argv, args, isWatchMode, isDeno, routesDir, outputFile, tree, listing,
                   fsFault, outContent, imports, routes, passes, written, pending,
                   delivered, dirty, changes, stderr, exitCode>>

\* lines 232-234: the subscription
StartWatch ==
    /\ pc = "generated"
    /\ isWatchMode
    /\ watching' = TRUE
    /\ pc' = "watching"
    /\ UNCHANGED <<compared, argv, args, isWatchMode, isDeno, routesDir, outputFile, tree, listing,
                   fsFault, outContent, imports, routes, passes, written, pending,
                   delivered, dirty, changes, stderr, exitCode>>

\* the end of the script without watch mode: nothing keeps the process alive
Exit ==
    /\ pc = "generated"
    /\ ~isWatchMode
    /\ exitCode' = 0
    /\ pc' = "exited"
    /\ UNCHANGED <<compared, argv, args, isWatchMode, isDeno, routesDir, outputFile, tree, listing,
                   fsFault, outContent, imports, routes, passes, written, watching,
                   pending, delivered, dirty, changes, stderr>>

\* lines 234-241: the callback of fs.watch, run once per delivered event; an
\* exception thrown in it is not caught either.  The write of the pass is
\* itself a change below routesDir when outputFile lies there.
WatchCallback ==
    /\ pc = "watching"
    /\ pending > 0
    /\ passes < MaxPasses
    /\ delivered' = delivered + 1
    /\ passes' = passes + 1
    /\ IF PassThrows
       THEN /\ exitCode' = 1
            /\ pc' = "exited"
            /\ pending' = pending - 1
            /\ UNCHANGED <<imports, routes, outContent, written, dirty>>
       ELSE /\ PassWrites
            /\ pending' = (pending - 1)
                            + (IF OutputBelow(routesDir, outputFile) # <<>> THEN 1 ELSE 0)
            /\ UNCHANGED <<pc, exitCode>>
    /\ UNCHANGED <<compared, argv, args, isWatchMode, isDeno, routesDir, outputFile, tree, listing,
                   fsFault, watching, changes, stderr>>

-----------------------------------------------------------------------------
(* The environment of a run: the command line, the route tree, the disk    *)

\* sequences of at most n elements of S
RECURSIVE SeqsUpTo(_, _)
SeqsUpTo(S, n) ==
    IF n = 0 THEN { <<>> }
    ELSE LET shorter == SeqsUpTo(S, n - 1)
         IN  shorter \cup { Append(q, x) : q \in shorter, x \in S }

\* the texts of route files used in whole runs
Handler     == "handler"
Semicolon   == ";"
DirectGet   == <<ExportConst, "onRequestGet", Assign, Handler, Semicolon>>
FactoryPost == <<ExportConst, "onRequestPost", Assign, CreateHandlers, "(", Handler, ")", Semicolon>>
HelperOnly  == <<"const helper = ", Handler, Semicolon>>

RoutesArg   == <<"routes">>
OutSibling  == <<"router.ts">>
OutInside   == <<"routes", "/", "o", ".", "t", "s">>
OutElsewhere == <<"gen", "/", "router.ts">>

FlagSeqs == SeqsUpTo({WatchLong, WatchShort, DenoFlag}, MaxFlags)

Positionals == { <<>>, <<RoutesArg>>, <<RoutesArg, OutSibling>>, <<RoutesArg, OutInside>> }

\* command lines: the positional arguments with flags before or after them
ArgvSet ==
    { pre \o pos \o post :
        pre \in FlagSeqs, post \in { f \in FlagSeqs : Len(f) <= 1 }, pos \in Positionals }

NameATs    == <<"a", ".", "t", "s">>
NameIndex  == IndexName \o ExtTs
NameParam  == <<"[", "x", "]", ".", "t", "s">>

RunPaths    == { <<NameATs>>, <<<<"a">>, NameParam>> }
RunContents == { DirectGet \o <<NewLine>> \o FactoryPost, HelperOnly }

\* a valid tree holds no path twice, and no file where another path has a directory
ValidTree(t) ==
    \A f, g \in t : f # g => ~IsPrefix(f.path, g.path)

\* an external process writes (creates or rewrites) or removes a route file
TreeChange ==
    /\ pc = "watching"
    /\ changes < MaxChanges
    /\ \E p \in RunPaths :
         \/ \E c \in RunContents :
               /\ [path |-> p, content |-> c] \notin tree
               /\ tree' = { f \in tree : f.path # p } \cup { [path |-> p, content |-> c] }
         \/ /\ \E f \in tree : f.path = p
            /\ tree' = { f \in tree : f.path # p }
    /\ ValidTree(tree')
    /\ changes' = changes + 1
    /\ dirty' = TRUE
    /\ pending' = pending + 1
    /\ UNCHANGED <<compared, pc, argv, args, isWatchMode, isDeno, routesDir, outputFile, listing,
                   fsFault, outContent, imports, routes, passes, written, watching,
                   delivered, stderr, exitCode>>

\* the file system starts or stops refusing access (permissions, a vanished disk)
FaultChange ==
    /\ pc \in {"parsed", "watching"}
    /\ fsFault' = ~fsFault
    /\ UNCHANGED <<compared, pc, argv, args, isWatchMode, isDeno, routesDir, outputFile, tree,
                   listing, outContent, imports, routes, passes, written, watching,
                   pending, delivered, dirty, changes, stderr, exitCode>>

\* everything but the inputs, as it is when the process starts
Fresh ==
    /\ pc = "start"
    /\ args = <<>>
    /\ isWatchMode = FALSE
    /\ isDeno = FALSE
    /\ routesDir = Undefined
    /\ outputFile = Undefined
    /\ imports = <<>>
    /\ routes = <<>>
    /\ passes = 0
    /\ written = 0
    /\ watching = FALSE
    /\ pending = 0
    /\ delivered = 0
    /\ dirty = FALSE
    /\ changes = 0
    /\ stderr = FALSE
    /\ exitCode = NoExit
    /\ compared = NoCompare

Init ==
    /\ Fresh
    /\ argv \in ArgvSet
    /\ tree \in { {}, { [path |-> <<NameATs>>, content |-> DirectGet] } }
    /\ listing = "asc"
    /\ fsFault = FALSE
    /\ outContent \in { NoFile, <<"stale text">> }

Next ==
    \/ ParseArgs
    \/ UsageExit
    \/ InitialGeneration
    \/ StartWatch
    \/ Exit
    \/ WatchCallback
    \/ TreeChange
    \/ FaultChange

Spec == Init /\ [][Next]_vars

-----------------------------------------------------------------------------
(* Single calls of generateRoutes on chosen trees                          *)

\* the call of line 229 on its own: generateRoutes(routesDir, outputFile, isDeno)
Generate ==
    /\ pc = "call"
    /\ PassWrites
    /\ passes' = passes + 1
    /\ pc' = "done"
    /\ UNCHANGED <<compared, argv, args, isWatchMode, isDeno, routesDir, outputFile, tree, listing,
                   fsFault, watching, pending, delivered, changes, stderr, exitCode>>

\* the state in which generateRoutes(dir, out, deno) is about to be called
Calling(dir, out, deno) ==
    /\ pc = "call"
    /\ argv = <<dir, out>> \o (IF deno THEN <<DenoFlag>> ELSE <<>>)
    /\ args = <<dir, out>>
    /\ isWatchMode = FALSE
    /\ isDeno = deno
    /\ routesDir = dir
    /\ outputFile = out
    /\ fsFault = FALSE
    /\ outContent = NoFile
    /\ imports = <<>>
    /\ routes = <<>>
    /\ passes = 0
    /\ written = 0
    /\ watching = FALSE
    /\ pending = 0
    /\ delivered = 0
    /\ dirty = FALSE
    /\ changes = 0
    /\ stderr = FALSE
    /\ exitCode = NoExit

\* the same with no call of sortPaths on its own
CallingGenerate(dir, out, deno) == Calling(dir, out, deno) /\ compared = NoCompare

NextCall == Generate

(* Path cases: one route file, its directories and its stem drawn from     *)
(* bracketed, plain and mixed texts.                                       *)

StemPrefixes == { <<>>, <<"r", "e">>, <<"-">> }
StemSuffixes == { <<>>, <<"b">> }
StemNames    == { <<"x">>, IndexName }

\* a name bare and in each of the four bracket wrappings
Wrappings(nm) ==
    { nm, OpenB \o nm \o CloseB, OpenBB \o nm \o CloseBB, OpenB3 \o nm \o CloseB,
      OpenBB3 \o nm \o CloseBB }

Stems ==
    { pre \o w \o post :
        pre \in StemPrefixes, w \in UNION { Wrappings(nm) : nm \in StemNames },
        post \in StemSuffixes }

DirNames ==
    { <<"a">>, IndexName, <<"[", "y", "]">>, <<"[", "[", "y", "]", "]">> }

PathFiles ==
    { [path |-> Append(ds, stem \o ext), content |-> DirectGet] :
        ds \in SeqsUpTo(DirNames, MaxDepth), stem \in Stems, ext \in {ExtTs, ExtTsx} }

InitPath ==
    /\ \E f \in PathFiles : tree = {f}
    /\ listing = "asc"
    /\ \/ \E deno \in BOOLEAN : CallingGenerate(RoutesArg, OutSibling, deno)
       \/ CallingGenerate(RoutesArg, OutElsewhere, FALSE)

SpecPath == InitPath /\ [][NextCall]_vars

(* Export detection cases: one route file a.ts or a.tsx whose text is a    *)
(* few statements, on one line or on several.                              *)

Direct(m)  == <<ExportConst, m, Assign, Handler, Semicolon>>
Factory(m) == <<ExportConst, m, Assign, CreateHandlers, "(", Handler, ")", Semicolon>>
\* the factory call wrapped onto the next line
FactoryWrapped(m) ==
    <<ExportConst, m, Assign, "factory", NewLine, ".", CreateHandlers, "(", Handler, ")",
      Semicolon>>
\* another identifier that begins like a recognized one
Longer(m)  == <<ExportConst, m, "All", Assign, Handler, Semicolon>>
AllFive    ==
    Direct("onRequestGet") \o <<NewLine>> \o Direct("onRequestPut") \o <<NewLine>>
        \o Direct("onRequestPost") \o <<NewLine>> \o Direct("onRequestDelete")
        \o <<NewLine>> \o Factory("onRequestPatch")

Statements ==
    UNION { { Direct(m), Factory(m), FactoryWrapped(m), Longer(m) } :
              m \in {"onRequestGet", "onRequestPost"} }
      \cup { HelperOnly, AllFive }

RECURSIVE Texts(_)
Texts(n) ==
    IF n = 0 THEN { <<>> }
    ELSE LET shorter == Texts(n - 1)
         IN  shorter \cup Statements
               \cup { t \o sep \o st :
                        t \in shorter \ { <<>> }, sep \in { <<" ">>, <<NewLine>> },
                        st \in Statements }

InitDetect ==
    /\ \E c \in Texts(MaxStmts), ext \in {ExtTs, ExtTsx} :
          tree = { [path |-> << <<"a">> \o ext >>, content |-> c] }
    /\ listing = "asc"
    /\ CallingGenerate(RoutesArg, OutSibling, FALSE)

SpecDetect == InitDetect /\ [][NextCall]_vars

(* Ordering cases: trees of several route files, static, parametric and    *)
(* catch-all, with and without capitalized names.                          *)

TreeDirs  == { <<>>, << <<"a">> >>, << <<"A">> >> }
TreeStems ==
    { <<"b">>, <<"A", "b">>, <<"[", "x", "]">>, <<"[", "[", "x", "]", "]">>,
      <<"[", ".", ".", ".", "x", "]">>, IndexName }

TreeContent(stem) ==
    IF stem = <<"A", "b">> THEN AllFive
    ELSE IF stem = <<"b">> THEN DirectGet \o <<NewLine>> \o FactoryPost
    ELSE DirectGet

TreeFiles ==
    { [path |-> Append(ds, stem \o ExtTs), content |-> TreeContent(stem)] :
        ds \in TreeDirs, stem \in TreeStems }

InitTree ==
    /\ tree \in { t \in SUBSET TreeFiles : Cardinality(t) <= MaxFiles }
    /\ listing \in {"asc", "desc"}
    /\ CallingGenerate(RoutesArg, OutSibling, FALSE)

SpecTree == InitTree /\ [][NextCall]_vars

(* Alias cases: one route file whose directories and stem hold the        *)
(* characters the alias rewrites of lines 98-105 act on, and others.       *)

AliasDirs  == { <<"a">>, <<"@", "a">>, <<"[", "y", "]">> }
AliasStems ==
    { <<"x">>, <<"-", "x">>, <<"@", "x">>, <<"_", "x">>, <<"x", "-", "y">>, <<"1">>,
      <<"a", ".", "b">>, <<"_">> }
        \cup (Wrappings(<<"y">>) \ { <<"y">> })

AliasFiles ==
    { [path |-> Append(ds, stem \o ext), content |-> DirectGet] :
        ds \in SeqsUpTo(AliasDirs, MaxDepth), stem \in AliasStems, ext \in {ExtTs, ExtTsx} }

InitAlias ==
    /\ \E f \in AliasFiles : tree = {f}
    /\ listing = "asc"
    /\ \E deno \in BOOLEAN : CallingGenerate(RoutesArg, OutSibling, deno)

SpecAlias == InitAlias /\ [][NextCall]_vars

(* Comparator cases: sortPaths called on its own on two router paths of    *)
(* static, parametric and catch-all segments.                              *)

SegmentNames == <<"a", "b", "d">>

\* a name as a static segment and as the segments lines 114-117 produce
SegmentsOf(n) == { <<n>>, <<":", n>>, <<":", n, "{", ".", "+", "}">> }

CompareSegments ==
    UNION { SegmentsOf(SegmentNames[k]) : k \in 1..MaxNames }
        \cup { <<":", "a", "{", ".", "*", "}">> }

\* `/${routePath}` of line 127: the root, and paths of one and of two segments
ComparePaths ==
    { <<"/">> } \cup { <<"/">> \o s : s \in CompareSegments }
        \cup { <<"/">> \o s \o <<"/">> \o t : s \in CompareSegments, t \in CompareSegments }

\* the comparator calls sort makes on a pair: sortPaths(a, b) and sortPaths(b, a)
Compare ==
    /\ pc = "call"
    /\ compared' = [compared EXCEPT !.ab = sortPaths(compared.a, compared.b),
                                     !.ba = sortPaths(compared.b, compared.a)]
    /\ pc' = "done"
    /\ UNCHANGED <<argv, args, isWatchMode, isDeno, routesDir, outputFile, tree, listing,
                   fsFault, outContent, imports, routes, passes, written, watching,
                   pending, delivered, dirty, changes, stderr, exitCode>>

InitCompare ==
    /\ \E a \in ComparePaths, b \in ComparePaths :
          compared = [a |-> a, b |-> b, ab |-> 0, ba |-> 0]
    /\ tree = {}
    /\ listing = "asc"
    /\ Calling(RoutesArg, OutSibling, FALSE)

NextCompare == Compare

SpecCompare == InitCompare /\ [][NextCompare]_vars

-----------------------------------------------------------------------------
(* Properties                                                              *)

Range(f) == { f[k] : k \in DOMAIN f }

FileName(f) == f.path[Len(f.path)]
FileDirs(f) == SubSeq(f.path, 1, Len(f.path) - 1)
\* the name without its .ts or .tsx
FileStem(f) ==
    LET n == FileName(f)
    IN  IF n[Len(n)] = "x" THEN SubSeq(n, 1, Len(n) - 4) ELSE SubSeq(n, 1, Len(n) - 3)

FileOf(src) == CHOOSE f \in tree : f.path = src

RoutesFrom(src)  == { k \in 1..Len(routes) : routes[k].src = src }
ImportsFrom(src) == { k \in 1..Len(imports) : imports[k].src = src }

\* 0 static, 1 parametric without marker, 2 parametric with {.+} or {.*}
SegmentKind(seg) ==
    IF seg # <<>> /\ seg[1] = ":"
    THEN IF includes(seg, <<"{", ".", "+", "}">>) \/ includes(seg, <<"{", ".", "*", "}">>)
         THEN 2 ELSE 1
    ELSE 0

\* positions at which both paths have a segment and the segments differ
Differing(a, b) ==
    { k \in 1..(IF Len(a) < Len(b) THEN Len(a) ELSE Len(b)) : a[k] # b[k] }

KindsAtFirstDifference(i, j) ==
    LET a == split(routes[i].path, "/")
        b == split(routes[j].path, "/")
        d == Differing(a, b)
    IN  IF d = {} THEN <<0, 0>> ELSE <<SegmentKind(a[Min(d)]), SegmentKind(b[Min(d)])>>

\* C1: in the emitted route list, of two routes whose paths first differ at
\* a position, the one registered earlier never has the lower-priority
\* segment there: static before parametric, and a parametric segment without
\* a {.+}/{.*} marker before one with it.
C1_StaticDynamicGreedy ==
    pc = "done" =>
        \A i, j \in 1..Len(routes) :
            i < j => KindsAtFirstDifference(i, j)[1] <= KindsAtFirstDifference(i, j)[2]

\* C1 witness: a pass over three files listed greedy first emitted a static,
\* a dynamic and a greedy route, in this order, differing at one position.
C1_Witness ==
    /\ pc = "done"
    /\ listing = "asc"
    /\ \E i, j, k \in 1..Len(routes) :
          /\ i < j /\ j < k
          /\ KindsAtFirstDifference(i, j) = <<0, 1>>
          /\ KindsAtFirstDifference(j, k) = <<1, 2>>
          /\ KindsAtFirstDifference(i, k) = <<0, 2>>

HasBracket(s) == \E k \in 1..Len(s) : s[k] \in {"[", "]"}

\* s is open, a bracket-free non-empty name, close
WhollyWrapped(s, open, close) ==
    /\ Len(s) > Len(open) + Len(close)
    /\ startsWith(s, open)
    /\ endsWith(s, close)
    /\ ~HasBracket(SubSeq(s, Len(open) + 1, Len(s) - Len(close)))

WrappedName(s, open, close) == SubSeq(s, Len(open) + 1, Len(s) - Len(close))

\* the router segment the transformation rules give for one file-system segment
ExpectedSegment(s) ==
    IF WhollyWrapped(s, OpenBB3, CloseBB)
    THEN <<":">> \o WrappedName(s, OpenBB3, CloseBB) \o <<"{", ".", "*", "}">>
    ELSE IF WhollyWrapped(s, OpenB3, CloseB)
    THEN <<":">> \o WrappedName(s, OpenB3, CloseB) \o <<"{", ".", "*", "}">>
    ELSE IF WhollyWrapped(s, OpenBB, CloseBB)
    THEN <<":">> \o WrappedName(s, OpenBB, CloseBB) \o <<"{", ".", "+", "}">>
    ELSE IF WhollyWrapped(s, OpenB, CloseB)
    THEN <<":">> \o WrappedName(s, OpenB, CloseB)
    ELSE s

\* C2: every segment of a route file's path is transformed on its own:
\* [[...x]] and [...x] to :x{.*}, [[x]] to :x{.+}, [x] to :x, and any other
\* segment text appears in the router path unchanged (files whose stem ends
\* in 'index' are left to C3).
C2_SegmentTransformation ==
    pc = "done" =>
        \A k \in 1..Len(routes) :
            LET f    == FileOf(routes[k].src)
                segs == Append(FileDirs(f), FileStem(f))
            IN  ~endsWith(FileStem(f), IndexName) =>
                    routes[k].path
                        = <<"/">> \o join([n \in 1..Len(segs) |-> ExpectedSegment(segs[n])],
                                        <<"/">>)

StaticPath(f) == \A n \in 1..Len(f.path) : ~HasBracket(f.path[n])

\* C3: for a file whose segments are all static text, the stem is left out
\* of the router path exactly when it equals 'index'; any other stem, and a
\* directory named 'index', is a path component with its full text.
C3_IndexCollapse ==
    pc = "done" =>
        \A k \in 1..Len(routes) :
            LET f == FileOf(routes[k].src)
            IN  StaticPath(f) =>
                    routes[k].path
                        = <<"/">> \o join(FileDirs(f) \o (IF FileStem(f) = IndexName THEN <<>>
                                                        ELSE <<FileStem(f)>>), <<"/">>)

\* C4: a file whose name starts with an upper-case letter is the source of
\* no import and of no route.
C4_CapitalizedIgnored ==
    pc = "done" =>
        \A f \in tree :
            FileName(f)[1] = "A" => RoutesFrom(f.path) = {} /\ ImportsFrom(f.path) = {}

\* C4 witness: a pass over a tree that holds, in a subdirectory, a capitalized
\* file exporting all five handlers, next to a file that did yield routes.
C4_Witness ==
    /\ pc = "done"
    /\ routes # <<>>
    /\ \E f \in tree : /\ FileName(f)[1] = "A"
                       /\ Len(f.path) = 2
                       /\ f.content = AllFive

\* the text holds the declaration `export const <m>`
TextExports(c, m) == \E i \in 1..(Len(c) - 1) : c[i] = ExportConst /\ c[i + 1] = m

OwnExportIsFactory(c, m) ==
    \E i \in 1..Len(c) :
        /\ StartsWithAt(c, i, <<ExportConst, m, Assign>>)
        /\ \E j \in (i + 3)..Len(c) :
               /\ c[j] = CreateHandlers
               /\ \A k \in (i + 3)..(j - 1) : c[k] # Semicolon

\* C6: a route is registered in the spread form exactly when the export
\* statement of its own method calls createHandlers.
C6_OwnExportDecidesShape ==
    pc = "done" =>
        \A k \in 1..Len(routes) :
            LET f == FileOf(routes[k].src)
                m == routes[k].handler[Len(routes[k].handler)]
            IN  routes[k].isFactory <=> OwnExportIsFactory(f.content, m)

C8_UsageError ==
    (pc # "start" /\ (routesDir = Undefined \/ outputFile = Undefined)) =>
        /\ pc \in {"parsed", "exited"}
        /\ passes = 0
        /\ written = 0
        /\ imports = <<>> /\ routes = <<>>
        /\ outContent \in {NoFile, <<"stale text">>}
        /\ ~watching
        /\ (pc = "exited" => stderr /\ exitCode \notin {0, NoExit})

\* C8 witness: the run ended with the usage message although a watch flag
\* and routesDir were given.
C8_Witness ==
    /\ pc = "exited"
    /\ stderr
    /\ isWatchMode
    /\ routesDir = RoutesArg
    /\ outputFile = Undefined

\* C9: whenever the tree is as the latest completed pass read it, the
\* output file holds exactly the text a first pass over the current tree
\* writes.
C9_FreshOutput ==
    (written > 0 /\ ~dirty) =>
        outContent
            = generateRoutesFrom([imports |-> <<>>, routes |-> <<>>],
                                 TreeSeen(tree, routesDir, outputFile, outContent),
                                 listing, routesDir, outputFile, isDeno).text

\* C9 witness: after a pass that emitted routes, the only route file was
\* removed and a later pass rewrote the output without any route.
C9_Witness ==
    /\ pc = "watching"
    /\ written >= 2
    /\ ~dirty
    /\ changes = 1
    /\ tree = {}
    /\ routes = <<>>
    /\ imports = <<>>

Sign(n) == IF n < 0 THEN -1 ELSE IF n > 0 THEN 1 ELSE 0

\* C11: sortPaths is a strict weak ordering of router paths: comparing B
\* with A gives the opposite sign of comparing A with B, 'A before B' and
\* 'B before C' give 'A before C', and ranking the same is transitive.
C11_StrictWeakOrdering ==
    pc = "done" =>
        /\ Sign(compared.ba) = -Sign(compared.ab)
        /\ sortPaths(compared.a, compared.a) = 0
        /\ \A c \in ComparePaths :
              /\ (compared.ab < 0 /\ sortPaths(compared.b, c) < 0)
                    => sortPaths(compared.a, c) < 0
              /\ (compared.ab = 0 /\ sortPaths(compared.b, c) = 0)
                    => sortPaths(compared.a, c) = 0

\* C11 witness: a static path of two segments was compared with a shorter
\* parametric path and ranked before it, and a catch-all path ranks after both.
C11_Witness ==
    /\ pc = "done"
    /\ compared.a = <<"/", "b", "/", "b">>
    /\ compared.b = <<"/", ":", "a">>
    /\ compared.ab < 0
    /\ compared.ba > 0
    /\ sortPaths(compared.b, <<"/", ":", "a", "{", ".", "*", "}">>) < 0
    /\ sortPaths(compared.a, <<"/", ":", "a", "{", ".", "*", "}">>) < 0

\* the alias of an import line: the text between `import * as ` and ` from `
AliasOf(imp) ==
    SubSeq(imp.text, 2, Min({ k \in 1..Len(imp.text) : imp.text[k] = " from " }) - 1)

IsLetter(c) ==
    \/ CharCode(c) \in 65..90
    \/ CharCode(c) \in 97..122

IsDigit(c) == CharCode(c) \in 48..57

IsIdentifier(s) ==
    /\ s # <<>>
    /\ IsLetter(s[1]) \/ s[1] = "_"
    /\ \A k \in 1..Len(s) : IsLetter(s[k]) \/ IsDigit(s[k]) \/ s[k] = "_"

\* C12: the alias of every emitted import is an identifier: it is not
\* empty, does not start with a digit, and holds identifier characters only.
C12_AliasIsIdentifier ==
    pc = "done" => \A k \in 1..Len(imports) : IsIdentifier(AliasOf(imports[k]))

\* the alias of a bracket-free path when every separator, '@' and hyphen
\* becomes an underscore and the leading underscores are stripped afterwards
SanitizedLast(f) ==
    StripLeading(ReplaceChars(join(Append(FileDirs(f), FileStem(f)), <<"/">>),
                              {"/", "\\", "@", "-"}, "_"),
                 "_")

\* C15: no alias begins with an underscore, and the alias of a bracket-free
\* path is the path with separators, '@' and hyphens turned into
\* underscores and the leading underscores stripped after that.
C15_LeadingUnderscoresStripped ==
    pc = "done" =>
        \A k \in 1..Len(imports) :
            LET f     == FileOf(imports[k].src)
                alias == AliasOf(imports[k])
            IN  /\ alias # <<>> => alias[1] # "_"
                /\ StaticPath(f) => alias = SanitizedLast(f)

\* C13: once the change subscription exists, a pass that fails with a
\* file-system error ends only that pass: the process is still running and
\* subscribed.
C13_WatchSurvivesFault ==
    watching => (pc = "watching" /\ exitCode = NoExit)

\* C17: every pass run by the watch callback answers an external change of
\* the route tree: the write of outputFile by a pass causes no further pass,
\* so the events delivered never outnumber the external changes.
C17_OwnWriteTriggersNoPass ==
    delivered <= changes

\* 0 a static name, 1 a single-bracket [x], 2 a catch-all [[x]], [...x], [[...x]]
TargetSegmentKind(seg) ==
    IF startsWith(seg, OpenBB) \/ startsWith(seg, OpenB3) THEN 2
    ELSE IF startsWith(seg, OpenB) THEN 1
    ELSE 0

TargetKindsAtFirstDifference(i, j) ==
    LET a == split(matchQuoted(imports[i].text), "/")
        b == split(matchQuoted(imports[j].text), "/")
        d == Differing(a, b)
    IN  IF d = {} THEN <<0, 0>>
        ELSE <<TargetSegmentKind(a[Min(d)]), TargetSegmentKind(b[Min(d)])>>

\* C14: in the emitted import list, of two imports whose targets first
\* differ at a segment, the one emitted earlier never has the lower-priority
\* segment there: a static name before a bracketed one, and a single-bracket
\* [x] before a catch-all.
C14_ImportsStaticFirst ==
    pc = "done" =>
        \A i, j \in 1..Len(imports) :
            i < j => TargetKindsAtFirstDifference(i, j)[1]
                        <= TargetKindsAtFirstDifference(i, j)[2]

\* the place of a route's method in the order GET, PUT, POST, DELETE, PATCH
MethodRank(m) ==
    CASE m = "get" -> 1 [] m = "put" -> 2 [] m = "post" -> 3 [] m = "delete" -> 4
      [] m = "patch" -> 5

\* the text exports m1 before it exports m2
ExportedBefore(c, m1, m2) ==
    \E i, j \in 1..(Len(c) - 1) :
        /\ i < j
        /\ c[i] = ExportConst /\ c[i + 1] = m1
        /\ c[j] = ExportConst /\ c[j + 1] = m2

\* C16: in the emitted route list the routes of one source file stand in
\* the order GET, PUT, POST, DELETE, PATCH.
C16_MethodOrderKept ==
    pc = "done" =>
        \A i, j \in 1..Len(routes) :
            (i < j /\ routes[i].src = routes[j].src)
                => MethodRank(routes[i].method) < MethodRank(routes[j].method)

\* C16 witness: a file whose text exports onRequestPost before onRequestGet
\* yielded its get route and then its post route.
C16_Witness ==
    /\ pc = "done"
    /\ Len(routes) = 2
    /\ routes[1].method = "get"
    /\ routes[2].method = "post"
    /\ \E f \in tree : ExportedBefore(f.content, "onRequestPost", "onRequestGet")

====
